---- MODULE Spec2Model ----
(***************************************************************************)
(* Verification model of lib/operations/tables.js (node-pg-migrate): the   *)
(* column compiler parseColumns and the statement builders around it.      *)
(*                                                                         *)
(* JavaScript values are pairs <<typeof, String(value)>>.  Objects that    *)
(* the code reads and writes through references (the caller's ColumnSet,   *)
(* its option records, the caller's shorthand dictionary, the module-level *)
(* default_type_shorthands) are state variables, so that the assignment    *)
(* `options.type = ...` of parseColumns lands where the code puts it.      *)
(*                                                                         *)
(* A string of SQL is a sequence of lines, a line a sequence of tokens, a  *)
(* token a tuple of strings: the text a template literal interpolates is   *)
(* String(value) of each piece.  Interpolated pieces hold no line break.   *)
(***************************************************************************)
EXTENDS Integers, Sequences, FiniteSets

\* Largest number of columns of a ColumnSet the caller builds.
MaxCols == 2

-----------------------------------------------------------------------------
(* JavaScript values *)

Undefined == <<"undefined", "undefined">>
Null == <<"object", "null">>
True == <<"boolean", "true">>
False == <<"boolean", "false">>
Zero == <<"number", "0">>
Str(s) == <<"string", s>>
\* The global function Object, which every plain object inherits as its
\* "constructor" property.
ObjectFunction == <<"function", "function Object() { [native code] }">>

\* String(v): what a template literal and a property key make of a value.
StringOf(v) == v[2]

\* ToBoolean(v): the test of `if (v)` and `v ? a : b`.
Truthy(v) == v \notin {Undefined, Null, False, Zero, Str("")}

\* Properties a plain object literal inherits from Object.prototype (the
\* inputs of this model use only "constructor"; toString, valueOf and the
\* others are functions too).
ObjectPrototype == [constructor |-> ObjectFunction]

\* obj[key] on a plain object whose own properties are the function `obj`.
GetProperty(obj, key) ==
  IF key \in DOMAIN obj THEN obj[key]
  ELSE IF key \in DOMAIN ObjectPrototype THEN ObjectPrototype[key]
  ELSE Undefined

-----------------------------------------------------------------------------
(* Module constants and helpers *)

type_adapters ==
  [int |-> Str("integer"), string |-> Str("text"), float |-> Str("real"),
   double |-> Str("double precision"), datetime |-> Str("timestamp"),
   bool |-> Str("boolean")]

\* An option record: every field the code reads; a property that is not
\* set reads as undefined.
Options(type, default, unique, primaryKey, notNull, check, references, onDelete, onUpdate) ==
  [type |-> type, default |-> default, unique |-> unique,
   primaryKey |-> primaryKey, notNull |-> notNull, check |-> check,
   references |-> references, onDelete |-> onDelete, onUpdate |-> onUpdate]

\* {} : no property set.
EmptyOptions ==
  Options(Undefined, Undefined, Undefined, Undefined, Undefined, Undefined,
          Undefined, Undefined, Undefined)

\* { type: t }
TypeOnly(t) == [EmptyOptions EXCEPT !.type = t]

\* The initial value of the module-level default_type_shorthands.
InitialDefaultTypeShorthands ==
  [id |-> [TypeOnly(Str("serial")) EXCEPT !.primaryKey = True]]

applyTypeAdapters(type) ==
  LET found == GetProperty(type_adapters, StringOf(type))
  IN  IF Truthy(found) THEN found ELSE type

\* Tokens of the emitted text.
Kw(k) == <<"kw", k>>
Txt(v) == <<"text", StringOf(v)>>
Ident(v) == <<"ident", StringOf(v)>>
Prefix(p) == <<"prefix", p>>

\* escapeValue of ../utils: the DDL literal of a value (an opaque token
\* that keeps the value's type and text apart from every other token).
escapeValue(v) == <<"literal", v[1], v[2]>>

\* quote = array => array.map(item => `"${item}"`)
quote(array) == [i \in DOMAIN array |-> Ident(array[i])]

\* Array.prototype.join(',\n') of single-line fragments: the empty array
\* gives the empty string, which is one empty line.
JoinLines(frags) ==
  IF Len(frags) = 0 THEN << <<>> >>
  ELSE [i \in 1..Len(frags) |->
          IF i < Len(frags) THEN frags[i] \o <<Kw(",")>> ELSE frags[i]]

\* Array.prototype.join(', ') inside one line.
JoinInline(toks) ==
  IF Len(toks) = 0 THEN <<>>
  ELSE [i \in 1..(2 * Len(toks) - 1) |->
          IF i % 2 = 1 THEN toks[(i + 1) \div 2] ELSE Kw(", ")]

\* String.prototype.replace(/^/gm, prefix): the prefix goes in front of
\* every line, the single empty line of the empty string included.
ReplaceLineStarts(text, prefix) ==
  [i \in DOMAIN text |-> prefix \o text[i]]

\* The template literal's text after the interpolated block, on its last line.
AppendToLast(text, toks) ==
  [i \in DOMAIN text |-> IF i = Len(text) THEN text[i] \o toks ELSE text[i]]

-----------------------------------------------------------------------------
(* The objects parseColumns reads and writes *)

\* A ColumnSpec as the caller wrote it: a string, an option record, or
\* nothing (undefined).
SpecString(s) == [kind |-> "string", str |-> s, rec |-> EmptyOptions]
SpecRecord(r) == [kind |-> "record", str |-> "", rec |-> r]
SpecUndefined == [kind |-> "undefined", str |-> "", rec |-> EmptyOptions]

\* One entry of a ColumnSet; a ColumnSet is the sequence of its entries in
\* the object's iteration order.
Column(name, spec) == [name |-> name, spec |-> spec]

\* The keys in the reverse of the iteration order.
Keys_Reversed(columns) ==
  [i \in DOMAIN columns |-> Str(columns[Len(columns) + 1 - i].name)]

\* _.keys(columns)
Keys(columns) == [i \in DOMAIN columns |-> Str(columns[i].name)]

\* The objects one call of parseColumns can reach: the ColumnSet it was
\* given, the caller's dictionary, the module's dictionary, and the objects
\* it creates itself for the columns that have no record ({ type: s }, {}).
Heap(columns, custom, defaults) ==
  [columns |-> columns, custom |-> custom, defaults |-> defaults,
   fresh |-> [i \in DOMAIN columns |->
                IF columns[i].spec.kind = "string"
                  THEN TypeOnly(Str(columns[i].spec.str)) ELSE EmptyOptions]]

Ref(space, key, idx) == [space |-> space, key |-> key, idx |-> idx]

\* The object that `options` names after lines 25-29 for column i.
\* type_shorthands = { ...default_type_shorthands, ...extending_type_shorthands }
\* holds the caller's record where both define the key, and as a plain
\* object it also answers for the inherited properties.
OptionsRef(h, i) ==
  LET spec == h.columns[i].spec
      s == spec.str
  IN  CASE spec.kind = "record" -> Ref("column", "", i)
        [] spec.kind = "undefined" -> Ref("fresh", "", i)
        [] OTHER ->
             IF s \in DOMAIN h.custom THEN Ref("custom", s, 0)
             ELSE IF s \in DOMAIN h.defaults THEN Ref("default", s, 0)
             ELSE IF s \in DOMAIN ObjectPrototype THEN Ref("prototype", s, 0)
             ELSE Ref("fresh", "", i)

\* The properties of the referenced object.  The function Object has none
\* of the option properties.
Deref(h, r) ==
  CASE r.space = "column" -> h.columns[r.idx].spec.rec
    [] r.space = "fresh" -> h.fresh[r.idx]
    [] r.space = "custom" -> h.custom[r.key]
    [] r.space = "default" -> h.defaults[r.key]
    [] OTHER -> EmptyOptions

\* options.type = v.  On the function Object the property stays undefined
\* (applyTypeAdapters(undefined) is undefined), so nothing observable changes.
AssignType(h, r, v) ==
  CASE r.space = "column" -> [h EXCEPT !.columns[r.idx].spec.rec.type = v]
    [] r.space = "fresh" -> [h EXCEPT !.fresh[r.idx].type = v]
    [] r.space = "custom" -> [h EXCEPT !.custom[r.key].type = v]
    [] r.space = "default" -> [h EXCEPT !.defaults[r.key].type = v]
    [] OTHER -> h

\* Line 31 for one column.
AdaptColumnType(h, i) ==
  LET r == OptionsRef(h, i)
  IN  AssignType(h, r, applyTypeAdapters(Deref(h, r).type))

\* The _.mapValues of lines 24-34 over columns 1..n, in iteration order.
RECURSIVE MapValues(_, _)
MapValues(h, n) ==
  IF n = 0 THEN h ELSE AdaptColumnType(MapValues(h, n - 1), n)

-----------------------------------------------------------------------------
(* parseColumns *)

\* columnsWithOptions after lines 24-34: entry i is the object of column i.
ColumnsWithOptions(h) ==
  [i \in DOMAIN h.columns |-> Deref(h, OptionsRef(h, i))]

\* Lines 36-39: the names of the columns whose primaryKey is truthy;
\* .filter() drops the nulls (and any other falsy entry).
primaryColumns(columns, options) ==
  LET marked == [i \in DOMAIN columns |->
                   IF Truthy(options[i].primaryKey)
                     THEN Str(columns[i].name) ELSE Null]
  IN  SelectSeq(marked, Truthy)

\* Line 40 with the threshold one too high.
multiplePrimaryColumns_MoreThanTwo(primary) == Len(primary) > 2

\* Line 40 with the threshold one too low.
multiplePrimaryColumns_AtLeastOne(primary) == Len(primary) >= 1

\* Line 40.
multiplePrimaryColumns(primary) == Len(primary) > 1

\* Lines 42-47 written the way line 31 is, as an assignment to the objects
\* themselves: options.primaryKey = false.
AssignPrimaryKeyFalse(h, r) ==
  CASE r.space = "column" -> [h EXCEPT !.columns[r.idx].spec.rec.primaryKey = False]
    [] r.space = "fresh" -> [h EXCEPT !.fresh[r.idx].primaryKey = False]
    [] r.space = "custom" -> [h EXCEPT !.custom[r.key].primaryKey = False]
    [] r.space = "default" -> [h EXCEPT !.defaults[r.key].primaryKey = False]
    [] OTHER -> h

RECURSIVE ClearPrimaryKeys(_, _)
ClearPrimaryKeys(h, n) ==
  IF n = 0 THEN h
  ELSE AssignPrimaryKeyFalse(ClearPrimaryKeys(h, n - 1), OptionsRef(h, n))

WithoutPrimaryKey_InPlace(h, multiple) ==
  LET h2 == IF multiple THEN ClearPrimaryKeys(h, Len(h.columns)) ELSE h
  IN  [heap |-> h2, options |-> ColumnsWithOptions(h2)]

\* Lines 42-47: new records, the objects of columnsWithOptions untouched.
WithoutPrimaryKey(h, multiple) ==
  [heap |-> h,
   options |-> IF multiple
                 THEN [i \in DOMAIN h.columns |->
                         [ColumnsWithOptions(h)[i] EXCEPT !.primaryKey = False]]
                 ELSE ColumnsWithOptions(h)]

\* Lines 50-71 with the PRIMARY KEY test moved below the NOT NULL test.
ColumnConstraints_NotNullFirst(options) ==
  (IF Truthy(options.unique) THEN <<Kw("UNIQUE")>> ELSE <<>>)
  \o (IF Truthy(options.notNull) THEN <<Kw("NOT NULL")>> ELSE <<>>)
  \o (IF Truthy(options.primaryKey) THEN <<Kw("PRIMARY KEY")>> ELSE <<>>)
  \o (IF Truthy(options.check)
        THEN <<Kw("CHECK ("), Txt(options.check), Kw(")")>> ELSE <<>>)
  \o (IF Truthy(options.references)
        THEN <<Kw("REFERENCES"), Txt(options.references)>>
             \o (IF Truthy(options.onDelete)
                   THEN <<Kw("ON DELETE"), Txt(options.onDelete)>> ELSE <<>>)
             \o (IF Truthy(options.onUpdate)
                   THEN <<Kw("ON UPDATE"), Txt(options.onUpdate)>> ELSE <<>>)
        ELSE <<>>)

\* Lines 50-71: the constraints array of one column.
ColumnConstraints(options) ==
  (IF Truthy(options.unique) THEN <<Kw("UNIQUE")>> ELSE <<>>)
  \o (IF Truthy(options.primaryKey) THEN <<Kw("PRIMARY KEY")>> ELSE <<>>)
  \o (IF Truthy(options.notNull) THEN <<Kw("NOT NULL")>> ELSE <<>>)
  \o (IF Truthy(options.check)
        THEN <<Kw("CHECK ("), Txt(options.check), Kw(")")>> ELSE <<>>)
  \o (IF Truthy(options.references)
        THEN <<Kw("REFERENCES"), Txt(options.references)>>
             \o (IF Truthy(options.onDelete)
                   THEN <<Kw("ON DELETE"), Txt(options.onDelete)>> ELSE <<>>)
             \o (IF Truthy(options.onUpdate)
                   THEN <<Kw("ON UPDATE"), Txt(options.onUpdate)>> ELSE <<>>)
        ELSE <<>>)

\* Line 73 with a truthiness test in place of `!== undefined`.
defaultValue_Truthy(options) ==
  IF Truthy(options.default)
    THEN <<Kw("DEFAULT"), escapeValue(options.default)>> ELSE <<>>

\* Line 73.
defaultValue(options) ==
  IF options.default # Undefined
    THEN <<Kw("DEFAULT"), escapeValue(options.default)>> ELSE <<>>

\* Lines 49-77: the fragment of one column.
ColumnFragment(options, column_name) ==
  <<Ident(Str(column_name)), Txt(options.type)>>
  \o defaultValue(options) \o ColumnConstraints(options)

\* Line 79: the table-level fragment.
PrimaryKeyConstraint(table_name, primary) ==
  <<Kw("CONSTRAINT"), <<"ident", StringOf(table_name), "_pkey">>,
    Kw("PRIMARY KEY (")>> \o JoinInline(quote(primary)) \o <<Kw(")")>>

\* parseColumns(columns, table_name, extending_type_shorthands), with the
\* module's default_type_shorthands as it stands at the call.  The result
\* is the returned text and the objects as the call leaves them.
parseColumns(columns, table_name, custom, defaults) ==
  LET h == MapValues(Heap(columns, custom, defaults), Len(columns))
      primary == primaryColumns(columns, ColumnsWithOptions(h))
      multiple == multiplePrimaryColumns(primary)
      w == WithoutPrimaryKey(h, multiple)
      fragments ==
        [i \in DOMAIN columns |-> ColumnFragment(w.options[i], columns[i].name)]
        \o (IF multiple THEN <<PrimaryKeyConstraint(table_name, primary)>>
            ELSE <<>>)
  IN  [text |-> JoinLines(fragments), columns |-> w.heap.columns,
       custom |-> w.heap.custom, defaults |-> w.heap.defaults]

-----------------------------------------------------------------------------
(* Statement builders: the text each returns, given the parsed columns *)

\* create: line 94-96.
createText(table_name, parsedText, inherits) ==
  << <<Kw("CREATE TABLE"), Ident(table_name), Kw("(")>> >>
  \o ReplaceLineStarts(parsedText, <<Prefix("  ")>>)
  \o << <<Kw(")")>>
        \o (IF Truthy(inherits) THEN <<Kw("INHERITS"), Txt(inherits)>> ELSE <<>>)
        \o <<Kw(";")>> >>

\* addColumns: line 103.
addColumnsText(table_name, parsedText) ==
  << <<Kw("ALTER TABLE"), Ident(table_name)>> >>
  \o AppendToLast(ReplaceLineStarts(parsedText, <<Prefix("  ADD ")>>), <<Kw(";")>>)

\* createType with a ColumnSet: line 156.
createTypeText(type_name, parsedText) ==
  << <<Kw("CREATE TYPE"), Ident(type_name), Kw("AS (")>> >>
  \o parsedText \o << <<Kw(");")>> >>

\* createType with an array of labels: line 155.
createEnumText(type_name, labels) ==
  << <<Kw("CREATE TYPE"), Ident(type_name), Kw("AS ENUM ('")>>
     \o [i \in 1..(2 * Len(labels) - 1) |->
           IF i % 2 = 1 THEN Txt(labels[(i + 1) \div 2]) ELSE Kw("', '")]
     \o <<Kw("');")>> >>

\* What a caller passes to dropColumns as `columns`: a string, an array
\* of names, or a ColumnSet.
NameArg(name) == [form |-> "string", str |-> name, array |-> <<>>, object |-> <<>>]
ArrayArg(names) == [form |-> "array", str |-> Undefined, array |-> names, object |-> <<>>]
ObjectArg(cs) == [form |-> "object", str |-> Undefined, array |-> <<>>, object |-> cs]

\* dropColumns: lines 105-112.
dropColumns(table_name, arg) ==
  LET names == CASE arg.form = "string" -> <<arg.str>>
                 [] arg.form = "object" -> Keys(arg.object)
                 [] OTHER -> arg.array
      clauses == [i \in DOMAIN names |-> <<quote(names)[i]>>]
  IN  << <<Kw("ALTER TABLE"), Ident(table_name)>> >>
      \o AppendToLast(ReplaceLineStarts(JoinLines(clauses), <<Prefix("  DROP ")>>),
                      <<Kw(";")>>)

\* alterColumn, lines 115-128: the actions array.
alterActions(options) ==
  (IF options.default = Null THEN << <<Kw("DROP DEFAULT")>> >>
   ELSE IF options.default # Undefined
     THEN << <<Kw("SET DEFAULT"), escapeValue(options.default)>> >>
   ELSE <<>>)
  \o (IF Truthy(options.type)
        THEN << <<Kw("SET DATA TYPE"), Txt(applyTypeAdapters(options.type))>> >>
        ELSE <<>>)
  \o (IF Truthy(options.notNull) THEN << <<Kw("SET NOT NULL")>> >>
      ELSE IF options.notNull = False \/ Truthy(options.allowNull)
        THEN << <<Kw("DROP NOT NULL")>> >>
      ELSE <<>>)

\* alterColumn: line 130.
alterColumn(table_name, column_name, options) ==
  << <<Kw("ALTER TABLE"), Ident(table_name)>> >>
  \o AppendToLast(ReplaceLineStarts(JoinLines(alterActions(options)),
                                    <<Prefix("  ALTER "), Ident(column_name)>>),
                  <<Kw(";")>>)

-----------------------------------------------------------------------------
(* The caller's inputs *)

Tables == {"users"}

\* Column names of an n-column ColumnSet, in iteration order (which is the
\* order the caller wrote them in, not the alphabetical one).
NameOrders(n) ==
  LET names == <<"b", "a", "d", "c">>
  IN  {[i \in 1..n |-> names[i]]}

\* The ColumnSpecs of the ColumnSets with several columns.
ColumnSpecs ==
  {SpecString("id"), SpecString("pk"), SpecString("int"),
   SpecString("constructor"), SpecUndefined,
   SpecRecord([TypeOnly(Str("int")) EXCEPT !.primaryKey = True]),
   SpecRecord([TypeOnly(Str("varchar")) EXCEPT
                 !.primaryKey = True, !.unique = True, !.notNull = True,
                 !.default = Zero])}

ColumnSetsOf(specs, n) ==
  {[i \in 1..n |-> Column(order[i], f[i])] :
     f \in [1..n -> specs], order \in NameOrders(n)}

ColumnSets == UNION {ColumnSetsOf(ColumnSpecs, n) : n \in 0..MaxCols}

\* The dictionaries a caller hands to create and addColumns (none is {}):
\* one overrides the built-in "id", one adds a shorthand of its own.
CustomDictionaries ==
  LET override == [TypeOnly(Str("string")) EXCEPT !.unique = True]
      pk == [TypeOnly(Str("int")) EXCEPT !.primaryKey = True]
  IN  {<<>>, [id |-> override], [pk |-> pk]}

\* ColumnSets written out at the call (object literals, not kept).
LiteralColumnSets ==
  {<<Column("a", SpecString("id"))>>,
   <<Column("a", SpecString("pk")), Column("b", SpecString("id"))>>}

-----------------------------------------------------------------------------
(* State *)

VARIABLES
  columns,                  \* the ColumnSet object the caller keeps and reuses
  custom,                   \* the caller's type-shorthand dictionary object
  default_type_shorthands,  \* the module-level dictionary
  out,                      \* the statement the last call returned
  call,                     \* the last call: its name and its arguments as passed
  first                     \* the statements the builders return for the
                            \* caller's objects as the caller made them

vars == <<columns, custom, default_type_shorthands, out, call, first>>

\* The statement each builder returns now for the caller's objects, by
\* table name.
Statements ==
  [t \in Tables |->
     LET p == parseColumns(columns, Str(t), custom, default_type_shorthands)
     IN  [create |-> createText(Str(t), p.text, Undefined),
          inherits |-> createText(Str(t), p.text, Str("base")),
          addColumns |-> addColumnsText(Str(t), p.text),
          createType |->
            createTypeText(Str("point"),
              parseColumns(columns, Undefined, <<>>, default_type_shorthands).text),
          dropColumns |-> dropColumns(Str(t), ObjectArg(columns))]]


\* `own` tells that `passed` is the kept ColumnSet, `dict` is the dictionary
\* the call hands to parseColumns, `withCustom` tells that it is the caller's
\* dictionary object, `options` is the options argument of create and
\* alterColumn.
Call(op, table_name, passed, own, dict, withCustom, options) ==
  [op |-> op, table |-> table_name, columns |-> passed, own |-> own,
   dict |-> dict, withCustom |-> withCustom,
   defaults |-> default_type_shorthands, options |-> options]

NoOptions == [inherits |-> Undefined]

NoCall == Call("none", Undefined, <<>>, FALSE, <<>>, FALSE, NoOptions)

Init ==
  /\ columns \in ColumnSets
  /\ custom \in CustomDictionaries
  /\ default_type_shorthands = InitialDefaultTypeShorthands
  /\ out = <<>>
  /\ call = NoCall
  /\ first = Statements

\* The objects after a call of parseColumns that was given `passed`.
Leave(p, own) ==
  /\ columns' = IF own THEN p.columns ELSE columns
  /\ default_type_shorthands' = p.defaults
  /\ first' = first

\* create(d)(t, passed, { inherits }), the builder made with the caller's
\* dictionary or with none.
Create ==
  \E t \in Tables, inherits \in {Undefined, Str("base")}, own \in BOOLEAN,
     withCustom \in BOOLEAN :
    \E passed \in (IF own THEN {columns} ELSE LiteralColumnSets) :
      LET d == IF withCustom THEN custom ELSE <<>>
          p == parseColumns(passed, Str(t), d, default_type_shorthands)
      IN  /\ Leave(p, own)
          /\ custom' = IF withCustom THEN p.custom ELSE custom
          /\ out' = createText(Str(t), p.text, inherits)
          /\ call' = Call("create", Str(t), passed, own, d, withCustom,
                          [inherits |-> inherits])

\* addColumns(d)(t, passed)
AddColumns ==
  \E t \in Tables, own \in BOOLEAN, withCustom \in BOOLEAN :
    \E passed \in (IF own THEN {columns} ELSE LiteralColumnSets) :
      LET d == IF withCustom THEN custom ELSE <<>>
          p == parseColumns(passed, Str(t), d, default_type_shorthands)
      IN  /\ Leave(p, own)
          /\ custom' = IF withCustom THEN p.custom ELSE custom
          /\ out' = addColumnsText(Str(t), p.text)
          /\ call' = Call("addColumns", Str(t), passed, own, d, withCustom,
                          NoOptions)

\* createType(name, passed) with a ColumnSet: parseColumns(options), so the
\* table name is undefined and the caller's dictionary is not consulted.
CreateType ==
  \E own \in BOOLEAN :
    \E passed \in (IF own THEN {columns} ELSE LiteralColumnSets) :
      LET p == parseColumns(passed, Undefined, <<>>, default_type_shorthands)
      IN  /\ Leave(p, own)
          /\ out' = createTypeText(Str("point"), p.text)
          /\ call' = Call("createType", Undefined, passed, own, <<>>, FALSE, NoOptions)
          /\ UNCHANGED <<custom, first>>

\* createType(name, labels) with an array.
CreateEnum ==
  \E labels \in {<<Str("x")>>, <<Str("x"), Str("y")>>} :
    /\ out' = createEnumText(Str("mood"), labels)
    /\ call' = Call("createEnum", Undefined, <<>>, FALSE, <<>>, FALSE, NoOptions)
    /\ UNCHANGED <<columns, custom, default_type_shorthands, first>>

\* dropColumns(t, x) with the kept ColumnSet, with the array of its names,
\* or with its one name.
DropColumns ==
  \E t \in Tables :
    \E arg \in {ObjectArg(columns), ArrayArg(Keys(columns))}
               \cup (IF Len(columns) = 1 THEN {NameArg(Keys(columns)[1])} ELSE {}) :
      /\ out' = dropColumns(Str(t), arg)
      /\ call' = Call("dropColumns", Str(t), columns, TRUE, <<>>, FALSE,
                      [form |-> arg.form])
      /\ UNCHANGED <<columns, custom, default_type_shorthands, first>>

Next == Create \/ AddColumns \/ CreateType \/ CreateEnum \/ DropColumns

Spec == Init /\ [][Next]_vars

-----------------------------------------------------------------------------
(* One column with every combination of options *)

DefaultValues == {Undefined, Null, False, Zero, Str(""), Str("now")}

Flag == {Undefined, True}

AllOptions(defaults) ==
  {Options(Str("int"), d, u, pk, nn, ck, rf, od, ou) :
     d \in defaults, u \in Flag, pk \in Flag, nn \in Flag,
     ck \in {Undefined, Str("n > 0")}, rf \in {Undefined, Str("users")},
     od \in {Undefined, Str("CASCADE")}, ou \in {Undefined, Str("RESTRICT")}}

\* Type names: adapter keys, native names, and a name that a plain object
\* inherits as a property.
TypeNames ==
  {"int", "string", "float", "double", "datetime", "bool", "varchar(10)",
   "integer", "constructor"}

\* The column alone, with each type name, and beside a second primary-key
\* column.
OneColumnSets ==
  {<<Column("b", SpecRecord(r))>> : r \in AllOptions(DefaultValues)}
  \cup {<<Column("b", SpecRecord(TypeOnly(Str(t))))>> : t \in TypeNames}
  \cup {<<Column("b", SpecRecord(r)),
          Column("a", SpecRecord([TypeOnly(Str("int")) EXCEPT !.primaryKey = True]))>> :
          r \in AllOptions({Undefined})}

InitColumn ==
  /\ columns \in OneColumnSets
  /\ custom = <<>>
  /\ default_type_shorthands = InitialDefaultTypeShorthands
  /\ out = <<>>
  /\ call = NoCall
  /\ first = Statements

SpecColumn == InitColumn /\ [][Next]_vars

-----------------------------------------------------------------------------
(* alterColumn, which reads no shared object *)

\* The option deltas a caller passes to alterColumn.
AlterOptions ==
  [default : {Undefined, Null, False, Zero, Str("now")},
   type : {Undefined, Str("int"), Str("varchar")},
   notNull : {Undefined, True, False},
   allowNull : {Undefined, True}]

InitAlter ==
  /\ columns = <<>>
  /\ custom = <<>>
  /\ default_type_shorthands = InitialDefaultTypeShorthands
  /\ out = <<>>
  /\ call = NoCall
  /\ first = Statements

AlterColumn ==
  \E t \in Tables, c \in {"age", "name"}, options \in AlterOptions :
    /\ out' = alterColumn(Str(t), Str(c), options)
    /\ call' = Call("alterColumn", Str(t), <<Column(c, SpecUndefined)>>, FALSE,
                    <<>>, FALSE, options)
    /\ UNCHANGED <<columns, custom, default_type_shorthands, first>>

NextAlter == AlterColumn

SpecAlter == InitAlter /\ [][NextAlter]_vars

-----------------------------------------------------------------------------
(* Reading the returned statement back *)

Range(seq) == {seq[i] : i \in DOMAIN seq}

\* The calls that go through parseColumns.
ParseOps == {"create", "addColumns", "createType"}

\* A line without its closing separator.
StripEnd(line) ==
  IF Len(line) > 0 /\ line[Len(line)] \in {Kw(","), Kw(";")}
    THEN SubSeq(line, 1, Len(line) - 1) ELSE line

\* The fragments parseColumns contributed to the last statement, each
\* without the builder's line prefix and without its separator.
Fragments ==
  CASE call.op = "create" ->
         [i \in 1..(Len(out) - 2) |-> StripEnd(Tail(out[i + 1]))]
    [] call.op = "addColumns" ->
         [i \in 1..(Len(out) - 1) |-> StripEnd(Tail(out[i + 1]))]
    [] call.op = "createType" ->
         [i \in 1..(Len(out) - 2) |-> StripEnd(out[i + 1])]
    [] OTHER -> <<>>

IsColumnFragment(f) == Len(f) > 0 /\ f[1][1] = "ident"
IsTableConstraint(f) == Len(f) > 0 /\ f[1] = Kw("CONSTRAINT")
HasInlinePrimaryKey(f) == Kw("PRIMARY KEY") \in Range(f)

\* The option record the last call's column i stands for: its own record, or
\* for a shorthand string the caller's entry, else the built-in entry, else
\* a record holding only the type.
DeclaredOptions(i) ==
  LET spec == call.columns[i].spec
  IN  CASE spec.kind = "record" -> spec.rec
        [] spec.kind = "string" ->
             IF spec.str \in DOMAIN call.dict THEN call.dict[spec.str]
             ELSE IF spec.str \in DOMAIN call.defaults THEN call.defaults[spec.str]
             ELSE TypeOnly(Str(spec.str))
        [] OTHER -> EmptyOptions

RECURSIVE PrimaryNamesFrom(_)
PrimaryNamesFrom(i) ==
  IF i > Len(call.columns) THEN <<>>
  ELSE (IF Truthy(DeclaredOptions(i).primaryKey)
          THEN <<call.columns[i].name>> ELSE <<>>) \o PrimaryNamesFrom(i + 1)

\* The names of the last call's primary-key columns, in ColumnSet order.
PrimaryNames == PrimaryNamesFrom(1)

RECURSIVE NameList(_)
NameList(names) ==
  IF Len(names) = 0 THEN <<>>
  ELSE IF Len(names) = 1 THEN <<Ident(Str(names[1]))>>
  ELSE <<Ident(Str(names[1])), Kw(", ")>> \o NameList(Tail(names))

-----------------------------------------------------------------------------
(* Claims *)

C2_SinglePrimaryKey ==
  (call.op \in ParseOps /\ Len(PrimaryNames) = 1) =>
    LET n == Len(call.columns)
    IN  /\ Len(Fragments) = n
        /\ \A i \in 1..n :
             /\ IsColumnFragment(Fragments[i])
             /\ ~IsTableConstraint(Fragments[i])
             /\ Fragments[i][1] = Ident(Str(call.columns[i].name))
             /\ HasInlinePrimaryKey(Fragments[i])
                  <=> (call.columns[i].name = PrimaryNames[1])

C2_Witness ==
  /\ call.op = "create"
  /\ Len(call.columns) = 2
  /\ Len(PrimaryNames) = 1
  /\ call.columns[2].spec = SpecString("id")
  /\ "id" \notin DOMAIN call.dict

\* C3: no builder changes a structure of the caller: across every call the
\* kept ColumnSet, the option records in it and the records of the caller's
\* dictionary keep the values they had.
C3_NoMutation == [][columns' = columns /\ custom' = custom]_vars

\* C4: after any sequence of calls every builder still returns, for the same
\* table name, ColumnSet object and dictionary object, the text it returned
\* for them at first; and the statement a call on the kept ColumnSet just
\* returned is that text.
C4_SameInputsSameText ==
  /\ Statements = first
  /\ (call.own /\ call.withCustom /\ call.op = "create") =>
       out = first[StringOf(call.table)]
               [IF Truthy(call.options.inherits) THEN "inherits" ELSE "create"]
  /\ (call.own /\ call.withCustom /\ call.op = "addColumns") =>
       out = first[StringOf(call.table)].addColumns
  /\ (call.own /\ call.op = "createType") =>
       \A t \in Tables : out = first[t].createType

\* A repeated call: the ColumnSet passed was already rewritten by an earlier
\* call, and so was the caller's dictionary.
C4_Witness ==
  /\ call.op = "create"
  /\ call.own
  /\ call.withCustom
  /\ \E i \in DOMAIN call.columns :
       /\ call.columns[i].spec.kind = "record"
       /\ call.columns[i].spec.rec.type = Str("integer")
  /\ "pk" \in DOMAIN call.dict /\ call.dict["pk"].type = Str("integer")
  /\ \E i \in DOMAIN call.columns : call.columns[i].spec = SpecString("pk")

\* C10: the built-in "id" shorthand stays { type: serial, primaryKey: true },
\* so create with the single column a: 'id' and no custom dictionary returns
\* "a" serial PRIMARY KEY on its one column line.
C10_IdShorthandKept ==
  /\ default_type_shorthands = InitialDefaultTypeShorthands
  /\ createText(Str("users"),
                parseColumns(<<Column("a", SpecString("id"))>>, Str("users"), <<>>,
                             default_type_shorthands).text,
                Undefined)
       = << <<Kw("CREATE TABLE"), <<"ident", "users">>, Kw("(")>>,
            <<Prefix("  "), <<"ident", "a">>, <<"text", "serial">>,
              Kw("PRIMARY KEY")>>,
            <<Kw(")"), Kw(";")>> >>

\* The built-in "id" was used in a composite key, by a caller whose own
\* dictionary overrides "id".
C10_Witness ==
  /\ "id" \in DOMAIN custom
  /\ call.op \in ParseOps
  /\ Len(PrimaryNames) >= 2
  /\ \E i \in DOMAIN call.columns :
       call.columns[i].spec = SpecString("id") /\ "id" \notin DOMAIN call.dict

\* The constraint keywords of a column fragment, in the order of the claim.
KeywordOrder ==
  <<Kw("UNIQUE"), Kw("PRIMARY KEY"), Kw("NOT NULL"), Kw("CHECK ("),
    Kw("REFERENCES"), Kw("ON DELETE"), Kw("ON UPDATE")>>

Rank(token) == CHOOSE r \in DOMAIN KeywordOrder : KeywordOrder[r] = token

KeywordPositions(f) == {j \in DOMAIN f : f[j] \in Range(KeywordOrder)}

\* Keyword k stands in fragment f, directly followed by the text of value v.
Carries(f, k, v) ==
  \E j \in DOMAIN f : f[j] = Kw(k) /\ j < Len(f) /\ f[j + 1] = Txt(v)

\* C5: in every column fragment the constraint keywords stand in the order
\* UNIQUE, PRIMARY KEY, NOT NULL, CHECK, REFERENCES, ON DELETE, ON UPDATE,
\* each at most once and each exactly when its option is set (PRIMARY KEY
\* when the column is the only primary-key column; ON DELETE and ON UPDATE
\* when references is set too), the last four followed by the option's value.
C5_ConstraintOrder ==
  call.op \in ParseOps =>
    \A i \in DOMAIN call.columns :
      LET f == Fragments[i]
          o == DeclaredOptions(i)
      IN  /\ \A j, k \in KeywordPositions(f) : j < k => Rank(f[j]) < Rank(f[k])
          /\ Kw("UNIQUE") \in Range(f) <=> Truthy(o.unique)
          /\ Kw("PRIMARY KEY") \in Range(f)
               <=> (Truthy(o.primaryKey) /\ Len(PrimaryNames) = 1)
          /\ Kw("NOT NULL") \in Range(f) <=> Truthy(o.notNull)
          /\ Kw("CHECK (") \in Range(f) <=> Truthy(o.check)
          /\ Kw("REFERENCES") \in Range(f) <=> Truthy(o.references)
          /\ Kw("ON DELETE") \in Range(f)
               <=> (Truthy(o.onDelete) /\ Truthy(o.references))
          /\ Kw("ON UPDATE") \in Range(f)
               <=> (Truthy(o.onUpdate) /\ Truthy(o.references))
          /\ Truthy(o.check) => Carries(f, "CHECK (", o.check)
          /\ Truthy(o.references) => Carries(f, "REFERENCES", o.references)
          /\ Kw("ON DELETE") \in Range(f) => Carries(f, "ON DELETE", o.onDelete)
          /\ Kw("ON UPDATE") \in Range(f) => Carries(f, "ON UPDATE", o.onUpdate)

\* A column with all seven options set.
C5_Witness ==
  /\ call.op = "create"
  /\ Len(call.columns) = 1
  /\ Cardinality(KeywordPositions(Fragments[1])) = 7

\* An onDelete option without references.
C5_WitnessCascadeAlone ==
  /\ call.op = "addColumns"
  /\ Truthy(DeclaredOptions(1).onDelete)
  /\ ~Truthy(DeclaredOptions(1).references)

\* C9: a column fragment holds a DEFAULT clause exactly when the column's
\* default option is not undefined (null, false, 0 and '' included); the
\* clause is the literal of the value and stands right after the type, in
\* front of every constraint keyword.
C9_DefaultClause ==
  call.op \in ParseOps =>
    \A i \in DOMAIN call.columns :
      LET f == Fragments[i]
          o == DeclaredOptions(i)
      IN  /\ Kw("DEFAULT") \in Range(f) <=> o.default # Undefined
          /\ o.default # Undefined =>
               /\ Len(f) >= 4
               /\ f[2][1] = "text"
               /\ f[3] = Kw("DEFAULT")
               /\ f[4] = <<"literal", o.default[1], o.default[2]>>
               /\ \A j \in KeywordPositions(f) : j > 4
               /\ \A j \in DOMAIN f : f[j] = Kw("DEFAULT") => j = 3

\* The default is the empty string, and the column has constraints.
C9_Witness ==
  /\ call.op = "create"
  /\ Len(call.columns) = 1
  /\ DeclaredOptions(1).default = Str("")
  /\ Truthy(DeclaredOptions(1).unique)
  /\ Kw("DEFAULT") \in Range(Fragments[1])

\* The clauses the claim gives for the last alterColumn call's options, in
\* the order default, type, nullability.
ClaimedAlterClauses ==
  LET o == call.options
  IN  (IF o.default = Null THEN << <<Kw("DROP DEFAULT")>> >>
       ELSE IF o.default # Undefined
         THEN << <<Kw("SET DEFAULT"), <<"literal", o.default[1], o.default[2]>> >> >>
       ELSE <<>>)
      \o (IF o.type = Str("int")
            THEN << <<Kw("SET DATA TYPE"), <<"text", "integer">> >> >>
          ELSE IF o.type # Undefined
            THEN << <<Kw("SET DATA TYPE"), Txt(o.type)>> >>
          ELSE <<>>)
      \o (IF Truthy(o.notNull) THEN << <<Kw("SET NOT NULL")>> >>
          ELSE IF o.notNull = False \/ Truthy(o.allowNull)
            THEN << <<Kw("DROP NOT NULL")>> >>
          ELSE <<>>)

\* The lines of the last statement that start with the ALTER "<column>" prefix.
AlterPrefixedLines ==
  {i \in 2..Len(out) :
     /\ Len(out[i]) >= 2
     /\ out[i][1] = Prefix("  ALTER ")
     /\ out[i][2] = Ident(Str(call.columns[1].name))}

\* C6: the statement of alterColumn holds the claimed clauses in the order
\* default, type, nullability, one ALTER "<column>" prefix per clause, so as
\* many prefixes as the option delta has concerns (zero to three).
C6_OnePrefixPerClause ==
  call.op = "alterColumn" =>
    /\ Cardinality(AlterPrefixedLines) = Len(ClaimedAlterClauses)
    /\ Len(out) = 1 + Len(ClaimedAlterClauses)
    /\ \A i \in 1..Len(ClaimedAlterClauses) :
         StripEnd(SubSeq(out[i + 1], 3, Len(out[i + 1]))) = ClaimedAlterClauses[i]

\* What C6 says of every delta that has at least one concern; it holds.
C6_WithSomeConcern ==
  (call.op = "alterColumn" /\ Len(ClaimedAlterClauses) > 0) =>
    /\ Cardinality(AlterPrefixedLines) = Len(ClaimedAlterClauses)
    /\ Len(out) = 1 + Len(ClaimedAlterClauses)
    /\ \A i \in 1..Len(ClaimedAlterClauses) :
         StripEnd(SubSeq(out[i + 1], 3, Len(out[i + 1]))) = ClaimedAlterClauses[i]

\* The type adapter as the claim has it: a mapped name gives the native
\* keyword, every other name is unchanged.
ClaimedType(type) ==
  IF StringOf(type) \in DOMAIN type_adapters
    THEN type_adapters[StringOf(type)] ELSE type

\* Column i of the last call is compiled from record o (its primary key
\* inline or in the table-level constraint).
CompiledFrom(i, o) ==
  LET f == Fragments[i]
      n == Len(call.columns)
  IN  /\ Len(f) >= 2
      /\ f[1] = Ident(Str(call.columns[i].name))
      /\ f[2] = Txt(ClaimedType(o.type))
      /\ Kw("UNIQUE") \in Range(f) <=> Truthy(o.unique)
      /\ Kw("NOT NULL") \in Range(f) <=> Truthy(o.notNull)
      /\ Kw("DEFAULT") \in Range(f) <=> o.default # Undefined
      /\ Truthy(o.primaryKey) <=>
           \/ HasInlinePrimaryKey(f)
           \/ /\ Len(Fragments) = n + 1
              /\ Ident(Str(call.columns[i].name)) \in Range(Fragments[n + 1])

\* C7: a column given as the string s is compiled from the caller's record
\* for s when the caller's dictionary has one, else from the built-in
\* record for s, else from the record whose only option is type s, the type
\* passed through the adapter.
C7_ShorthandExpansion ==
  call.op \in ParseOps =>
    \A i \in DOMAIN call.columns :
      call.columns[i].spec.kind = "string" => CompiledFrom(i, DeclaredOptions(i))

\* What C7 says of every string that is no inherited property name of a
\* plain object; it holds.
C7_OwnNamesOnly ==
  call.op \in ParseOps =>
    \A i \in DOMAIN call.columns :
      (/\ call.columns[i].spec.kind = "string"
       /\ call.columns[i].spec.str \notin DOMAIN ObjectPrototype)
        => CompiledFrom(i, DeclaredOptions(i))

\* The names of the DROP "<name>" clauses of a dropColumns statement.
RECURSIVE DropNamesFrom(_, _)
DropNamesFrom(text, i) ==
  IF i > Len(text) THEN <<>>
  ELSE LET clause == StripEnd(Tail(text[i]))
       IN  (IF Len(clause) = 1 /\ clause[1][1] = "ident"
              THEN <<clause[1][2]>> ELSE <<>>) \o DropNamesFrom(text, i + 1)

\* The names of the columns the last addColumns statement adds.
RECURSIVE AddedNamesFrom(_)
AddedNamesFrom(i) ==
  IF i > Len(Fragments) THEN <<>>
  ELSE (IF IsColumnFragment(Fragments[i]) THEN <<Fragments[i][1][2]>> ELSE <<>>)
       \o AddedNamesFrom(i + 1)

\* A dropColumns statement: one ALTER TABLE line, then only DROP clauses,
\* each naming one column (the clause of an empty list names none).
IsDropStatement(text, table_name) ==
  /\ Len(text) >= 2
  /\ text[1] = <<Kw("ALTER TABLE"), Ident(table_name)>>
  /\ \A i \in 2..Len(text) :
       /\ text[i][1] = Prefix("  DROP ")
       /\ Len(StripEnd(Tail(text[i]))) <= 1
       /\ Len(StripEnd(Tail(text[i]))) = 1 => StripEnd(Tail(text[i]))[1][1] = "ident"

====
